---- MODULE Spec2Model ----
(***************************************************************************)
(* Model of analysis_engine/scripts/run_backtest_and_plot_history.py:      *)
(* one invocation of run_backtest_and_plot_history() from the command      *)
(* line to the plot, with the collaborators (run_custom_algo, run_algo,    *)
(* the history dataframe, plot_trading_history) as nondeterministic        *)
(* environment calls whose invocations are recorded.                       *)
(*                                                                         *)
(* Python strings are sequences of tokens.  The tokens "file", "s3",       *)
(* "redis", "ftp", "x", "a", "b" stand for runs of letters and digits,     *)
(* ":" and "/" for themselves; no token other than the three scheme words  *)
(* shares a character with them, so substring tests and splits on ":" and  *)
(* "/" act on tokens exactly as they act on characters.                    *)
(***************************************************************************)
EXTENDS Integers, Sequences, FiniteSets, TLC

VARIABLES
    args,               \* argparse namespace (line 637)
    pc,                 \* position in run_backtest_and_plot_history
    errors,             \* what log.error has reported, in order
    ticker,             \* line 639/741
    debug,              \* line 715/743
    history_json_file,  \* line 650/739
    run_this_date,      \* line 651/753
    use_start_date,     \* line 642/756
    use_end_date,       \* line 643/774
    algo_mod_path,      \* line 790/797/806
    config_dict,        \* parameter, replaced at line 805
    load,               \* load_from_file / _s3_bucket / _s3_key / _redis_key
    history,            \* history_file / _s3_bucket / _s3_key / _redis_key
    report,             \* report_file / _s3_bucket / _s3_key / _redis_key
    extract,            \* extract_file / _s3_bucket / _s3_key / _redis_key
    load_config,        \* line 665/1123
    locals,             \* which of the *_loc local names have been assigned
    run_on_engine,      \* line 716/936
    timeseries,         \* line 719/946
    algo_res,           \* line 953 and line 1158
    custom_calls,       \* arguments of each run_custom_algo invocation
    default_calls,      \* arguments of each run_algo invocation
    history_df,         \* line 1181
    saved,              \* each history_df.to_json invocation
    plots,              \* arguments of each plot_trading_history invocation
    trace               \* the collaborators invoked and what each returned, in order

vars == <<args, pc, errors, ticker, debug, history_json_file, run_this_date,
          use_start_date, use_end_date, algo_mod_path, config_dict, load,
          history, report, extract, load_config, locals, run_on_engine,
          timeseries, algo_res, custom_calls, default_calls, history_df,
          saved, plots, trace>>

-----------------------------------------------------------------------------
(* Python values *)

\* Python's None; no string of the model holds the token "None"
None == <<"None">>

\* a one-token string
Str(tok) == <<tok>>

\* truth value of an optional string: None and '' are false
Truthy(v) == v # None /\ v # <<>>

\* pat in s
Contains(s, pat) ==
    \E i \in 0..(Len(s) - Len(pat)) : SubSeq(s, i + 1, i + Len(pat)) = pat

\* s.split(sep) for a one-character separator: the segments, in order
RECURSIVE Split(_, _)
Split(s, sep) ==
    IF \A i \in 1..Len(s) : s[i] # sep
    THEN <<s>>
    ELSE LET i == CHOOSE k \in 1..Len(s) :
                      s[k] = sep /\ \A j \in 1..(k - 1) : s[j] # sep
         IN  <<SubSeq(s, 1, i - 1)>> \o Split(SubSeq(s, i + 1, Len(s)), sep)

\* seq[-n]
FromEnd(seq, n) == seq[Len(seq) - n + 1]

\* d.get(k, default) and d[k] = v on a dict (a function on its keys)
Get(d, k, default) == IF k \in DOMAIN d THEN d[k] ELSE default

Put(d, k, v) == [x \in (DOMAIN d) \cup {k} |-> IF x = k THEN v ELSE d[x]]

-----------------------------------------------------------------------------
(* Transport references *)

FileMark == <<"file", ":", "/">>
S3Mark == <<"s3", ":", "/", "/">>
RedisMark == <<"redis", ":", "/", "/">>
FtpMark == <<"ftp", ":", "/", "/">>

\* a validation that asks only for a scheme separator
InvalidLocAnyScheme(loc) == ~Contains(loc, <<":", "/">>)

\* the test of lines 841-843 (865-867, 889-891, 913-915, 1096-1098)
InvalidLoc(loc) ==
    /\ ~Contains(loc, FileMark)
    /\ ~Contains(loc, S3Mark)
    /\ ~Contains(loc, RedisMark)

NoLocation == [s3_bucket |-> None, s3_key |-> None, redis_key |-> None,
               file |-> None]

\* the if/elif/elif of lines 853-859 (877-883, 901-907, 925-931, 1114-1120)
\* cur is the four variables before, the result the four variables after
ParseLoc(loc, cur) ==
    IF Contains(loc, S3Mark)
    THEN [cur EXCEPT !.s3_bucket = FromEnd(Split(loc, "/"), 2),
                     !.s3_key = FromEnd(Split(loc, "/"), 1)]
    ELSE IF Contains(loc, RedisMark)
    THEN [cur EXCEPT !.redis_key = FromEnd(Split(loc, "/"), 1)]
    ELSE IF Contains(loc, FileMark)
    THEN [cur EXCEPT !.file = FromEnd(Split(loc, ":"), 1)]
    ELSE cur

-----------------------------------------------------------------------------
(* Dates *)

\* the decimal value of a run of digits
DigitsValue(tok) ==
    CASE tok = "2018" -> 2018
      [] tok = "11" -> 11
      [] tok = "13" -> 13
      [] tok = "29" -> 29
      [] tok = "40" -> 40
      [] OTHER -> 0 - 1

IsLeap(y) == (y % 4 = 0 /\ y % 100 # 0) \/ y % 400 = 0

DaysInMonth(y, m) ==
    IF m = 2 THEN (IF IsLeap(y) THEN 29 ELSE 28)
    ELSE IF m \in {4, 6, 9, 11} THEN 30 ELSE 31

\* datetime.datetime.strptime(s, '%Y-%m-%d') returns (does not raise):
\* %Y is four digits, %m a month, %d a day of that month
Strptime(s) ==
    /\ Len(s) = 5
    /\ s[2] = "-" /\ s[4] = "-"
    /\ DigitsValue(s[1]) \in 1000..9999
    /\ DigitsValue(s[3]) \in 1..12
    /\ DigitsValue(s[5]) \in 1..DaysInMonth(DigitsValue(s[1]), DigitsValue(s[3]))

\* '{} 00:00:00'.format(str(d))
WithMidnight(d) == d \o <<" ", "00:00:00">>

-----------------------------------------------------------------------------
(* Command line and environment *)

MaxPath == 3

DefaultBalance == 10000
DefaultCommission == 6

\* str.upper() on the ticker
Upper(t) == IF t = Str("spy") THEN Str("SPY") ELSE t

DateArgs == { <<"2018", "-", "11", "-", "29">>,
              <<"2018", "-", "13", "-", "40">>,
              <<"11", "/", "29", "/", "2018">> }

\* paths that exist on disk; every other path does not
ExistingPaths == { Str("algo.py"), Str("cfg_algo.py"), Str("cfg.json") }

AlgoFileArgs == { Str("algo.py"), Str("gone.py") }
ConfigFileArgs == { Str("cfg.json"), Str("gone.json") }

\* what a config file can hold: text that is not JSON, or a JSON object
\* that sets any of algo_path, balance, timeseries
Absent == <<"Absent">>

JsonObject(ap, bal, ts) ==
    [k \in (IF ap = Absent THEN {} ELSE {"algo_path"})
           \cup (IF bal = 0 THEN {} ELSE {"balance"})
           \cup (IF ts = Absent THEN {} ELSE {"timeseries"}) |->
        CASE k = "algo_path" -> ap
          [] k = "balance" -> bal
          [] k = "timeseries" -> ts]

ConfigFileContents ==
    { JsonObject(ap, bal, ts) :
        ap \in {Absent, Str("cfg_algo.py"), Str("gone.py")},
        bal \in {0, 5000},
        ts \in {Absent, Str("minute"), Str("daily")} }

\* reference strings: an optional leading "x", a scheme marker, then up to
\* MaxPath tokens of path
PathTokens == {"a", "b", "/", ":"}

RECURSIVE PathsOfLen(_)
PathsOfLen(n) ==
    IF n = 0 THEN { <<>> }
    ELSE { Append(p, t) : p \in PathsOfLen(n - 1), t \in PathTokens }

Paths == UNION { PathsOfLen(n) : n \in 1..MaxPath }

AllRefs ==
    { pre \o mark \o p :
        pre \in { <<>>, <<"x">> },
        mark \in { FileMark, S3Mark, RedisMark, FtpMark },
        p \in Paths }

FileRef == FileMark \o <<"/", "a">>
S3Ref == S3Mark \o <<"a", "/", "b">>
RedisRef == RedisMark \o <<"a">>
FtpRef == FtpMark \o <<"a">>

InputRefs == { FileRef, S3Ref, RedisRef, FtpRef }
OutputRefs == { S3Ref, FtpRef }

Opt(S) == S \cup { None }

NoArgs ==
    [ ticker |-> Str("spy"), start_date |-> None, end_date |-> None,
      run_this_date |-> None, run_algo_in_file |-> None,
      config_file |-> None, run_on_engine |-> FALSE, debug |-> FALSE,
      history_json_file |-> None, backtest_loc |-> None,
      algo_history_loc |-> None, algo_report_loc |-> None,
      algo_extract_loc |-> None ]

\* command lines that vary the three dates
DateCommandLines ==
    { [NoArgs EXCEPT !.start_date = s, !.end_date = n, !.run_this_date = j,
                     !.run_algo_in_file = g, !.config_file = c,
                     !.algo_history_loc = o, !.algo_report_loc = o,
                     !.algo_extract_loc = o] :
        s \in Opt(DateArgs), n \in Opt(DateArgs), j \in Opt(DateArgs),
        g \in Opt({Str("algo.py")}), c \in Opt({Str("cfg.json")}),
        o \in Opt({S3Ref}) }

\* command lines that vary the module, the config file, the flags and the
\* four dataset channels
ChannelCommandLines ==
    { [NoArgs EXCEPT !.run_algo_in_file = g, !.config_file = c,
                     !.run_on_engine = w, !.debug = d,
                     !.history_json_file = f, !.backtest_loc = b,
                     !.algo_history_loc = p, !.algo_report_loc = o,
                     !.algo_extract_loc = e] :
        g \in Opt(AlgoFileArgs), c \in Opt(ConfigFileArgs),
        w \in BOOLEAN, d \in BOOLEAN, f \in Opt({Str("history.json")}),
        b \in Opt(InputRefs), p \in Opt(OutputRefs), o \in Opt(OutputRefs),
        e \in Opt(OutputRefs) }

\* command lines that vary the -b reference string
RefCommandLines ==
    { [NoArgs EXCEPT !.backtest_loc = b, !.run_algo_in_file = g,
                     !.algo_history_loc = o, !.algo_report_loc = o,
                     !.algo_extract_loc = o] :
        b \in AllRefs, g \in Opt({Str("algo.py")}), o \in Opt({S3Ref}) }

CommandLines == DateCommandLines \cup ChannelCommandLines \cup RefCommandLines

\* build_example_algo_config(ticker='SPY', timeseries='minute'), line 1258
build_example_algo_config ==
    [ k \in {"name", "timeseries", "balance", "commission", "ticker"} |->
        CASE k = "name" -> Str("backtest")
          [] k = "timeseries" -> Str("minute")
          [] k = "balance" -> DefaultBalance
          [] k = "commission" -> DefaultCommission
          [] k = "ticker" -> Str("SPY") ]

\* a result envelope: status, and rec's task_id and history when present
NoResult == [status |-> "NONE", task_id |-> None, has_history |-> FALSE,
             history |-> <<>>]

\* a request of build_publish_request; is_none while load_config is None
NoRequest == [is_none |-> TRUE, output_file |-> None, s3_bucket |-> None,
              s3_key |-> None, redis_key |-> None, s3_enabled |-> FALSE,
              redis_enabled |-> FALSE]

\* history_df before line 1181
NoFrame == [kind |-> "unset", rows |-> <<>>]

\* the state at line 721: the command line parsed, every default assigned
Init ==
    /\ args \in CommandLines
    /\ pc = "overrides"
    /\ errors = <<>>
    /\ ticker = Str("SPY")
    /\ debug = FALSE
    /\ history_json_file = None
    /\ run_this_date = None
    /\ use_start_date = None
    /\ use_end_date = None
    /\ algo_mod_path = None
    /\ config_dict = build_example_algo_config
    /\ load = NoLocation
    /\ history = NoLocation
    /\ report = NoLocation
    /\ extract = NoLocation
    /\ load_config = NoRequest
    /\ locals = {}
    /\ run_on_engine = FALSE
    /\ timeseries = Str("minute")
    /\ algo_res = NoResult
    /\ custom_calls = <<>>
    /\ default_calls = <<>>
    /\ history_df = NoFrame
    /\ saved = <<>>
    /\ plots = <<>>
    /\ trace = <<>>

-----------------------------------------------------------------------------
(* How an invocation ends *)

\* log.error(...) then sys.exit(1)
Exit(msg) ==
    /\ errors' = Append(errors, msg)
    /\ pc' = "exit"

\* an exception nothing catches: the traceback ends the process
Raise(exc) ==
    /\ errors' = errors
    /\ pc' = exc

Exceptions == { "TypeError", "JSONDecodeError", "UnboundLocalError",
                "KeyError", "IndexError", "OSError" }

Terminated == pc \in {"exit", "returned"} \cup Exceptions

\* the process exit status: sys.exit(1) and an uncaught exception give 1,
\* a return from run_backtest_and_plot_history gives 0
ExitStatus == IF pc = "returned" THEN 0 ELSE 1

-----------------------------------------------------------------------------
(* Configuration resolution, lines 722-832 *)

\* lines 722-753
ReadOverrides ==
    /\ pc = "overrides"
    /\ history_json_file' =
           IF Truthy(args.history_json_file) THEN args.history_json_file
           ELSE history_json_file
    /\ ticker' = IF Truthy(args.ticker) THEN Upper(args.ticker) ELSE ticker
    /\ debug' = IF args.debug THEN TRUE ELSE debug
    /\ run_this_date' =
           IF Truthy(args.run_this_date) THEN args.run_this_date
           ELSE run_this_date
    /\ pc' = "start_date"
    /\ UNCHANGED <<args, errors, use_start_date, use_end_date, algo_mod_path,
                   config_dict, load, history, report, extract, load_config,
                   locals, run_on_engine, timeseries, algo_res, custom_calls,
                   default_calls, history_df, saved, plots, trace>>

\* lines 754-771
CheckStartDate ==
    /\ pc = "start_date"
    /\ IF Truthy(args.start_date)
       THEN /\ use_start_date' = WithMidnight(args.start_date)
            /\ IF Strptime(args.start_date)
               THEN pc' = "end_date" /\ errors' = errors
               ELSE Exit("please use a start date formatted as: %Y-%m-%d")
       ELSE /\ pc' = "end_date"
            /\ UNCHANGED <<use_start_date, errors>>
    /\ UNCHANGED <<args, ticker, debug, history_json_file, run_this_date,
                   use_end_date, algo_mod_path, config_dict, load, history,
                   report, extract, load_config, locals, run_on_engine,
                   timeseries, algo_res, custom_calls, default_calls,
                   history_df, saved, plots, trace>>

\* lines 772-789
CheckEndDate ==
    /\ pc = "end_date"
    /\ IF Truthy(args.end_date)
       THEN /\ use_end_date' = WithMidnight(args.end_date)
            /\ IF Strptime(args.end_date)
               THEN pc' = "algo_file" /\ errors' = errors
               ELSE Exit("please use an end date formatted as: %Y-%m-%d")
       ELSE /\ pc' = "algo_file"
            /\ UNCHANGED <<use_end_date, errors>>
    /\ UNCHANGED <<args, ticker, debug, history_json_file, run_this_date,
                   use_start_date, algo_mod_path, config_dict, load, history,
                   report, extract, load_config, locals, run_on_engine,
                   timeseries, algo_res, custom_calls, default_calls,
                   history_df, saved, plots, trace>>

\* os.path.exists(path) for a string path
PathExists(path) == path \in ExistingPaths

\* lines 790-797
ResolveAlgoFile ==
    /\ pc = "algo_file"
    /\ IF Truthy(args.run_algo_in_file)
       THEN IF ~PathExists(args.run_algo_in_file)
            THEN /\ Exit("missing algorithm module file")
                 /\ UNCHANGED algo_mod_path
            ELSE /\ algo_mod_path' = args.run_algo_in_file
                 /\ pc' = "config_file"
                 /\ errors' = errors
       ELSE /\ pc' = "config_file"
            /\ UNCHANGED <<algo_mod_path, errors>>
    /\ UNCHANGED <<args, ticker, debug, history_json_file, run_this_date,
                   use_start_date, use_end_date, config_dict, load, history,
                   report, extract, load_config, locals, run_on_engine,
                   timeseries, algo_res, custom_calls, default_calls,
                   history_df, saved, plots, trace>>

\* lines 806-808: the module path once a config file has been read
ConfigAlgoPath(cfg, cur) == Get(cfg, "algo_path", cur)

\* lines 798-813; the file's content is read at line 805
LoadConfigFile ==
    /\ pc = "config_file"
    /\ IF ~Truthy(args.config_file)
       THEN /\ pc' = "finalize"
            /\ UNCHANGED <<config_dict, algo_mod_path, errors>>
       ELSE IF ~PathExists(args.config_file)
       THEN /\ Exit("Failed: unable to find config file")
            /\ UNCHANGED <<config_dict, algo_mod_path>>
       ELSE \/ /\ Raise("JSONDecodeError")   \* the text is not JSON
               /\ UNCHANGED <<config_dict, algo_mod_path>>
            \/ \E content \in ConfigFileContents :
                  /\ config_dict' = content
                  /\ algo_mod_path' = ConfigAlgoPath(content, algo_mod_path)
                  /\ IF algo_mod_path' = None
                     THEN Raise("TypeError")   \* os.path.exists(None)
                     ELSE IF ~PathExists(algo_mod_path')
                     THEN Exit("missing algorithm module file from config")
                     ELSE pc' = "finalize" /\ errors' = errors
    /\ UNCHANGED <<args, ticker, debug, history_json_file, run_this_date,
                   use_start_date, use_end_date, load, history, report,
                   extract, load_config, locals, run_on_engine, timeseries,
                   algo_res, custom_calls, default_calls, history_df, saved,
                   plots, trace>>

\* lines 819-821: the balance and commission written into the config
FinalBalance(cfg) == DefaultBalance

FinalCommission(cfg) == DefaultCommission

\* lines 819-832
FinalizeConfig ==
    /\ pc = "finalize"
    /\ LET c1 == Put(config_dict, "ticker", ticker)
           c2 == Put(c1, "balance", FinalBalance(config_dict))
           c3 == Put(c2, "commission", FinalCommission(config_dict))
       IN  config_dict' =
               IF Truthy(run_this_date)
               THEN Put(c3, "run_this_date", run_this_date)
               ELSE c3
    /\ pc' = IF Truthy(algo_mod_path) THEN "custom_backtest_loc"
             ELSE "backtest_loc"
    /\ UNCHANGED <<args, errors, ticker, debug, history_json_file,
                   run_this_date, use_start_date, use_end_date, algo_mod_path,
                   load, history, report, extract, load_config, locals,
                   run_on_engine, timeseries, algo_res, custom_calls,
                   default_calls, history_df, saved, plots, trace>>

-----------------------------------------------------------------------------
(* The custom algorithm module, lines 837-1092 *)

InvalidLocMsg == "invalid -b <backtest dataset file> specified."

\* lines 839-861
ParseBacktestLoc ==
    /\ pc = "custom_backtest_loc"
    /\ IF Truthy(args.backtest_loc)
       THEN /\ locals' = locals \cup {"backtest_loc"}
            /\ IF InvalidLoc(args.backtest_loc)
               THEN Exit(InvalidLocMsg) /\ UNCHANGED load
               ELSE /\ load' = ParseLoc(args.backtest_loc, load)
                    /\ pc' = "custom_history_loc"
                    /\ errors' = errors
       ELSE /\ pc' = "custom_history_loc"
            /\ UNCHANGED <<locals, load, errors>>
    /\ UNCHANGED <<args, ticker, debug, history_json_file, run_this_date,
                   use_start_date, use_end_date, algo_mod_path, config_dict,
                   history, report, extract, load_config, run_on_engine,
                   timeseries, algo_res, custom_calls, default_calls,
                   history_df, saved, plots, trace>>

\* lines 863-885
ParseHistoryLoc ==
    /\ pc = "custom_history_loc"
    /\ IF Truthy(args.algo_history_loc)
       THEN /\ locals' = locals \cup {"algo_history_loc"}
            /\ IF InvalidLoc(args.algo_history_loc)
               THEN Exit(InvalidLocMsg) /\ UNCHANGED history
               ELSE /\ history' = ParseLoc(args.algo_history_loc, history)
                    /\ pc' = "custom_report_loc"
                    /\ errors' = errors
       ELSE /\ pc' = "custom_report_loc"
            /\ UNCHANGED <<locals, history, errors>>
    /\ UNCHANGED <<args, ticker, debug, history_json_file, run_this_date,
                   use_start_date, use_end_date, algo_mod_path, config_dict,
                   load, report, extract, load_config, run_on_engine,
                   timeseries, algo_res, custom_calls, default_calls,
                   history_df, saved, plots, trace>>

\* lines 887-909
ParseReportLoc ==
    /\ pc = "custom_report_loc"
    /\ IF Truthy(args.algo_report_loc)
       THEN /\ locals' = locals \cup {"algo_report_loc"}
            /\ IF InvalidLoc(args.algo_report_loc)
               THEN Exit(InvalidLocMsg) /\ UNCHANGED report
               ELSE /\ report' = ParseLoc(args.algo_report_loc, report)
                    /\ pc' = "custom_extract_loc"
                    /\ errors' = errors
       ELSE /\ pc' = "custom_extract_loc"
            /\ UNCHANGED <<locals, report, errors>>
    /\ UNCHANGED <<args, ticker, debug, history_json_file, run_this_date,
                   use_start_date, use_end_date, algo_mod_path, config_dict,
                   load, history, extract, load_config, run_on_engine,
                   timeseries, algo_res, custom_calls, default_calls,
                   history_df, saved, plots, trace>>

\* lines 911-933
ParseExtractLoc ==
    /\ pc = "custom_extract_loc"
    /\ IF Truthy(args.algo_extract_loc)
       THEN /\ locals' = locals \cup {"algo_extract_loc"}
            /\ IF InvalidLoc(args.algo_extract_loc)
               THEN Exit(InvalidLocMsg) /\ UNCHANGED extract
               ELSE /\ extract' = ParseLoc(args.algo_extract_loc, extract)
                    /\ pc' = "run_custom_algo"
                    /\ errors' = errors
       ELSE /\ pc' = "run_custom_algo"
            /\ UNCHANGED <<locals, extract, errors>>
    /\ UNCHANGED <<args, ticker, debug, history_json_file, run_this_date,
                   use_start_date, use_end_date, algo_mod_path, config_dict,
                   load, history, report, load_config, run_on_engine,
                   timeseries, algo_res, custom_calls, default_calls,
                   history_df, saved, plots, trace>>

Statuses == { "SUCCESS", "FAILED", "ERR" }

\* the trading history a custom module run returns in rec['history']
CustomHistories == { <<7000>> }

\* what run_custom_algo can return: on the engine a task id and no history,
\* in process the history
CustomResults(on_engine) ==
    { [status |-> st, task_id |-> IF on_engine THEN Str("task-1") ELSE None,
       has_history |-> ~on_engine,
       history |-> IF on_engine THEN <<>> ELSE h] :
        st \in Statuses, h \in CustomHistories }

\* the keyword arguments of lines 954-1030 that the run configuration,
\* the channels and the flags decide
CustomAlgoArgs(cfg, on_engine, ts) ==
    [ mod_path |-> algo_mod_path,
      ticker |-> cfg["ticker"],
      balance |-> cfg["balance"],
      commission |-> cfg["balance"],
      start_date |-> use_start_date,
      end_date |-> use_end_date,
      config_dict |-> cfg,
      load |-> load,
      history |-> history,
      report |-> report,
      extract |-> extract,
      load_config |-> load_config,
      run_on_engine |-> on_engine,
      timeseries |-> ts ]

\* lines 935-1030
RunCustomAlgo ==
    /\ pc = "run_custom_algo"
    /\ run_on_engine' = IF args.run_on_engine THEN TRUE ELSE run_on_engine
    /\ timeseries' = Get(config_dict, "timeseries", timeseries)
    /\ custom_calls' =
           Append(custom_calls,
                  CustomAlgoArgs(config_dict, run_on_engine', timeseries'))
    /\ algo_res' \in CustomResults(run_on_engine')
    /\ trace' = Append(trace, [fn |-> "run_custom_algo",
                               result |-> algo_res'.status])
    /\ pc' = "custom_label"
    /\ UNCHANGED <<args, errors, ticker, debug, history_json_file,
                   run_this_date, use_start_date, use_end_date, algo_mod_path,
                   config_dict, load, history, report, extract, load_config,
                   locals, default_calls, history_df, saved, plots>>

\* the local names lines 1034-1039 read
LabelNames == {"algo_extract_loc", "algo_history_loc", "algo_report_loc"}

\* lines 1032-1065
BuildLabel ==
    /\ pc = "custom_label"
    /\ IF LabelNames \subseteq locals
       THEN pc' = "custom_status" /\ errors' = errors
       ELSE Raise("UnboundLocalError")
    /\ UNCHANGED <<args, ticker, debug, history_json_file, run_this_date,
                   use_start_date, use_end_date, algo_mod_path, config_dict,
                   load, history, report, extract, load_config, locals,
                   run_on_engine, timeseries, algo_res, custom_calls,
                   default_calls, history_df, saved, plots, trace>>

\* lines 1066-1090: the custom run's result ends the invocation
CustomRunFatal(dbg, res) == ~dbg /\ res.status # "SUCCESS"

\* lines 1066-1091
CheckCustomStatus ==
    /\ pc = "custom_status"
    /\ IF CustomRunFatal(args.debug, algo_res)
       THEN Exit("run_custom_algo returned error")
       ELSE /\ pc' = "backtest_loc"
            /\ errors' = IF algo_res.status = "SUCCESS" THEN errors
                         ELSE Append(errors, "done running")
    /\ UNCHANGED <<args, ticker, debug, history_json_file, run_this_date,
                   use_start_date, use_end_date, algo_mod_path, config_dict,
                   load, history, report, extract, load_config, locals,
                   run_on_engine, timeseries, algo_res, custom_calls,
                   default_calls, history_df, saved, plots, trace>>

-----------------------------------------------------------------------------
(* The default example algorithm, lines 1094-1178 *)

\* build_publish_request(output_file, s3_bucket, s3_key, redis_key): the
\* request holds the location it is given, the matching channel enabled
build_publish_request(f, b, k, r) ==
    [ is_none |-> FALSE, output_file |-> f, s3_bucket |-> b, s3_key |-> k,
      redis_key |-> r, s3_enabled |-> (b # None /\ k # None),
      redis_enabled |-> (r # None) ]

\* lines 1123-1149
LoadRequest(l) ==
    LET r0 == build_publish_request(l.file, l.s3_bucket, l.s3_key,
                                    l.redis_key)
        r1 == IF Truthy(l.file) THEN [r0 EXCEPT !.output_file = l.file]
              ELSE r0
        r2 == IF Truthy(l.redis_key)
              THEN [r1 EXCEPT !.redis_key = l.redis_key,
                              !.redis_enabled = TRUE]
              ELSE r1
    IN  IF Truthy(l.s3_bucket) /\ Truthy(l.s3_key)
        THEN [r2 EXCEPT !.s3_bucket = l.s3_bucket, !.s3_key = l.s3_key,
                        !.s3_enabled = TRUE]
        ELSE r2

\* lines 1094-1149
ResolveBacktestLoc ==
    /\ pc = "backtest_loc"
    /\ IF Truthy(args.backtest_loc)
       THEN /\ locals' = locals \cup {"backtest_loc"}
            /\ IF InvalidLoc(args.backtest_loc)
               THEN Exit(InvalidLocMsg) /\ UNCHANGED <<load, load_config>>
               ELSE /\ load' = ParseLoc(args.backtest_loc, NoLocation)
                    /\ load_config' = LoadRequest(load')
                    /\ pc' = "run_algo"
                    /\ errors' = errors
       ELSE /\ pc' = "run_algo"
            /\ UNCHANGED <<locals, load, load_config, errors>>
    /\ UNCHANGED <<args, ticker, debug, history_json_file, run_this_date,
                   use_start_date, use_end_date, algo_mod_path, config_dict,
                   history, report, extract, run_on_engine, timeseries,
                   algo_res, custom_calls, default_calls, history_df, saved,
                   plots, trace>>

\* the arguments of ExampleCustomAlgo(...) and run_algo(...), lines 1154-1163
DefaultAlgoArgs ==
    [ ticker |-> ticker,
      algo_ticker |-> config_dict["ticker"],
      config_dict |-> config_dict,
      start_date |-> use_start_date,
      end_date |-> use_end_date ]

\* what run_algo can return
DefaultResults ==
    { [NoResult EXCEPT !.status = st] : st \in Statuses }

\* lines 1151-1163
RunDefaultAlgo ==
    /\ pc = "run_algo"
    /\ default_calls' = Append(default_calls, DefaultAlgoArgs)
    /\ algo_res' \in DefaultResults
    /\ trace' = Append(trace, [fn |-> "run_algo",
                               result |-> algo_res'.status])
    /\ pc' = "algo_status"
    /\ UNCHANGED <<args, errors, ticker, debug, history_json_file,
                   run_this_date, use_start_date, use_end_date, algo_mod_path,
                   config_dict, load, history, report, extract, load_config,
                   locals, run_on_engine, timeseries, custom_calls,
                   history_df, saved, plots>>

\* a status test that knows one failure status only
DefaultRunFailedOnErr(res) == res.status = "ERR"

\* line 1165
DefaultRunFailed(res) == res.status # "SUCCESS"

\* a status interpretation that runs the default algorithm again after a
\* failure
CheckDefaultStatusRetry ==
    /\ pc = "algo_status"
    /\ IF DefaultRunFailed(algo_res)
       THEN /\ errors' = Append(errors, "failed running algo backtest")
            /\ pc' = "run_algo"
       ELSE /\ pc' = "get_history"
            /\ errors' = errors
    /\ UNCHANGED <<args, ticker, debug, history_json_file, run_this_date,
                   use_start_date, use_end_date, algo_mod_path, config_dict,
                   load, history, report, extract, load_config, locals,
                   run_on_engine, timeseries, algo_res, custom_calls,
                   default_calls, history_df, saved, plots, trace>>

\* lines 1165-1178
CheckDefaultStatus ==
    /\ pc = "algo_status"
    /\ IF DefaultRunFailed(algo_res)
       THEN /\ errors' = Append(errors, "failed running algo backtest")
            /\ pc' = "returned"
       ELSE /\ pc' = "get_history"
            /\ errors' = errors
    /\ UNCHANGED <<args, ticker, debug, history_json_file, run_this_date,
                   use_start_date, use_end_date, algo_mod_path, config_dict,
                   load, history, report, extract, load_config, locals,
                   run_on_engine, timeseries, algo_res, custom_calls,
                   default_calls, history_df, saved, plots, trace>>

-----------------------------------------------------------------------------
(* The trading history, lines 1180-1243 *)

MaxRows == 1

CloseThreshold == 10

\* close prices, in thousandths
Closes == { 0, 10, 20 }

RECURSIVE SeriesOfLen(_)
SeriesOfLen(n) ==
    IF n = 0 THEN { <<>> }
    ELSE { Append(r, c) : r \in SeriesOfLen(n - 1), c \in Closes }

\* a history lookup that reads the custom module run's rec['history']
HistoryDatasetsFromCustomRun ==
    { [kind |-> "frame", rows |-> h] : h \in CustomHistories }

\* what algo_obj.get_history_dataset() can hold for the ticker: no entry,
\* an entry that is no dataframe, or a dataframe of rows (their closes)
HistoryDatasets ==
    { [kind |-> "missing", rows |-> <<>>],
      [kind |-> "nontabular", rows |-> <<>>] }
    \cup { [kind |-> "frame", rows |-> r] :
             r \in UNION { SeriesOfLen(n) : n \in 0..MaxRows }
                   \cup { <<0, 5, 10, 20, 5000>> } }

\* lines 1180-1183
GetHistory ==
    /\ pc = "get_history"
    /\ \E df \in HistoryDatasets :
          IF df.kind = "missing"
          THEN Raise("KeyError") /\ UNCHANGED history_df
          ELSE /\ history_df' = df
               /\ errors' = errors
               /\ pc' = IF df.kind = "frame" THEN "save_history"
                        ELSE "returned"
    /\ UNCHANGED <<args, ticker, debug, history_json_file, run_this_date,
                   use_start_date, use_end_date, algo_mod_path, config_dict,
                   load, history, report, extract, load_config, locals,
                   run_on_engine, timeseries, algo_res, custom_calls,
                   default_calls, saved, plots, trace>>

\* a save that does not ask whether a history file was configured
SaveHistoryUnconditional ==
    /\ pc = "save_history"
    /\ saved' = Append(saved, [file |-> history_json_file,
                               rows |-> history_df.rows])
    /\ trace' = Append(trace, [fn |-> "to_json", result |-> "OK"])
    /\ pc' = "plot"
    /\ UNCHANGED <<args, errors, ticker, debug, history_json_file,
                   run_this_date, use_start_date, use_end_date, algo_mod_path,
                   config_dict, load, history, report, extract, load_config,
                   locals, run_on_engine, timeseries, algo_res, custom_calls,
                   default_calls, history_df, plots>>

\* lines 1185-1192; to_json raises when the file cannot be written
SaveHistory ==
    /\ pc = "save_history"
    /\ IF Truthy(history_json_file)
       THEN \/ /\ saved' = Append(saved, [file |-> history_json_file,
                                          rows |-> history_df.rows])
               /\ trace' = Append(trace, [fn |-> "to_json",
                                          result |-> "OK"])
               /\ pc' = "plot"
               /\ errors' = errors
            \/ /\ Raise("OSError")
               /\ trace' = Append(trace, [fn |-> "to_json",
                                          result |-> "RAISED"])
               /\ UNCHANGED saved
       ELSE /\ pc' = "plot"
            /\ UNCHANGED <<saved, trace, errors>>
    /\ UNCHANGED <<args, ticker, debug, history_json_file, run_this_date,
                   use_start_date, use_end_date, algo_mod_path, config_dict,
                   load, history, report, extract, load_config, locals,
                   run_on_engine, timeseries, algo_res, custom_calls,
                   default_calls, history_df, plots>>

\* a filter that keeps the rows at the threshold too
RowFilterAtLeast(rows) == [i \in 1..Len(rows) |-> rows[i] >= CloseThreshold]

\* line 1214: history_df['close'] > 0.01, row by row
RowFilter(rows) == [i \in 1..Len(rows) |-> rows[i] > CloseThreshold]

\* an axis selection with the two columns exchanged
XColSwapped(cfg) ==
    IF cfg["timeseries"] = Str("minute") THEN "date" ELSE "minute"

\* lines 1205-1209
XCol(cfg) ==
    IF cfg["timeseries"] = Str("minute") THEN "minute" ELSE "date"

DateFormat(cfg) ==
    IF cfg["timeseries"] = Str("minute") THEN "%d %H:%M:%S\n%b" ELSE "%d\n%b"

\* the keyword arguments of lines 1231-1243
PlotArgs(df, cfg) ==
    [ df |-> df.rows, red |-> "close", blue |-> "balance",
      date_col |-> XCol(cfg), date_format |-> DateFormat(cfg),
      df_filter |-> RowFilter(df.rows) ]

\* lines 1194-1243; the dataframe carries the columns the script reads
PlotHistory ==
    /\ pc = "plot"
    /\ IF history_df.rows = <<>>
       THEN Raise("IndexError") /\ UNCHANGED <<plots, trace>>
       ELSE IF "timeseries" \notin DOMAIN config_dict
       THEN Raise("KeyError") /\ UNCHANGED <<plots, trace>>
       ELSE /\ plots' = Append(plots, PlotArgs(history_df, config_dict))
            /\ trace' = Append(trace, [fn |-> "plot_trading_history",
                                       result |-> "OK"])
            /\ pc' = "returned"
            /\ errors' = errors
    /\ UNCHANGED <<args, ticker, debug, history_json_file, run_this_date,
                   use_start_date, use_end_date, algo_mod_path, config_dict,
                   load, history, report, extract, load_config, locals,
                   run_on_engine, timeseries, algo_res, custom_calls,
                   default_calls, history_df, saved>>

-----------------------------------------------------------------------------

Next ==
    \/ ReadOverrides
    \/ CheckStartDate
    \/ CheckEndDate
    \/ ResolveAlgoFile
    \/ LoadConfigFile
    \/ FinalizeConfig
    \/ ParseBacktestLoc
    \/ ParseHistoryLoc
    \/ ParseReportLoc
    \/ ParseExtractLoc
    \/ RunCustomAlgo
    \/ BuildLabel
    \/ CheckCustomStatus
    \/ ResolveBacktestLoc
    \/ RunDefaultAlgo
    \/ CheckDefaultStatus
    \/ GetHistory
    \/ SaveHistory
    \/ PlotHistory

Spec == Init /\ [][Next]_vars

-----------------------------------------------------------------------------
(* Properties *)

Marks == { FileMark, S3Mark, RedisMark }

\* the reference begins with the marker
StartsWith(s, pat) ==
    Len(s) >= Len(pat) /\ SubSeq(s, 1, Len(pat)) = pat

\* the text of a reference after its leading marker
AfterMark(loc, mark) == SubSeq(loc, Len(mark) + 1, Len(loc))

\* the reference holds none of the three markers anywhere
HoldsNoMark(loc) == \A m \in Marks : ~Contains(loc, m)

\* the -b reference has been resolved into a load request (line 1149 passed)
Resolved == ~load_config.is_none

AlgoCalls == { i \in DOMAIN trace : trace[i].fn \in {"run_custom_algo", "run_algo"} }

PresenterCalls ==
    { i \in DOMAIN trace : trace[i].fn \in {"to_json", "plot_trading_history"} }

\* C1: for a -b reference file:P (P beginning with /), s3://B/K or
\* redis://K the resolved load request holds exactly P as the file, exactly
\* (B, K) as bucket and key, or exactly K as the cache key, and the other
\* transports stay null.
C1_ExactLocation ==
    Resolved =>
        LET loc == args.backtest_loc
            s3rest == Split(AfterMark(loc, S3Mark), "/")
        IN  /\ StartsWith(loc, FileMark) =>
                  /\ load_config.output_file = AfterMark(loc, <<"file", ":">>)
                  /\ load_config.s3_bucket = None
                  /\ load_config.s3_key = None
                  /\ load_config.redis_key = None
            /\ StartsWith(loc, RedisMark) =>
                  /\ load_config.redis_key = AfterMark(loc, RedisMark)
                  /\ load_config.output_file = None
                  /\ load_config.s3_bucket = None
                  /\ load_config.s3_key = None
            /\ (StartsWith(loc, S3Mark) /\ Len(s3rest) = 2) =>
                  /\ load_config.s3_bucket = s3rest[1]
                  /\ load_config.s3_key = s3rest[2]
                  /\ load_config.output_file = None
                  /\ load_config.redis_key = None

\* C2: a -b reference is resolved only if it begins with exactly one of
\* file:/, s3://, redis:// and holds no second marker; any other string is
\* rejected and never resolved.
C2_OnlyPrefixedAccepted ==
    Resolved =>
        /\ Cardinality({ m \in Marks : StartsWith(args.backtest_loc, m) }) = 1
        /\ Cardinality({ m \in Marks : Contains(args.backtest_loc, m) }) = 1

\* C3: for a Local reference file:/... the resolved path is the whole text
\* after the first ':' of the reference.
C3_PathAfterFirstColon ==
    (Resolved /\ StartsWith(args.backtest_loc, FileMark)) =>
        load.file = AfterMark(args.backtest_loc, <<"file", ":">>)

\* C4: the resolved configuration takes the config file's balance when the
\* file sets one and the default balance otherwise, and a module path given
\* with -g wins over the config file's algo_path.
C4_Precedence ==
    [][ (pc = "finalize" /\ pc' # "finalize") =>
          /\ config_dict'["balance"] =
                 IF Truthy(args.config_file)
                 THEN Get(config_dict, "balance", DefaultBalance)
                 ELSE DefaultBalance
          /\ Truthy(args.run_algo_in_file) =>
                 algo_mod_path' = args.run_algo_in_file ]_vars

SuppliedDates ==
    { d \in {args.start_date, args.end_date, args.run_this_date} : Truthy(d) }

\* C5: when a supplied start, end or run date does not parse as YYYY-MM-DD
\* no algorithm is executed and the invocation does not return normally,
\* and an unparsable run date is never written into the configuration.
C5_DatesValidated ==
    /\ (\E d \in SuppliedDates : ~Strptime(d)) =>
           (AlgoCalls = {} /\ pc # "returned")
    /\ "run_this_date" \in DOMAIN config_dict =>
           Strptime(config_dict["run_this_date"])

\* C6: with a config file, a missing module path (the file names a path
\* that does not exist, or names none while -g gave none) ends the run with
\* the logged missing-module error and exit 1, never an uncaught exception,
\* and an algorithm is executed only with an existing module path.
C6_MissingModuleReported ==
    Truthy(args.config_file) =>
        /\ pc # "TypeError"
        /\ AlgoCalls # {} => (Truthy(algo_mod_path) /\ PathExists(algo_mod_path))

\* an invalid -b reference, or with a custom module an invalid -p/-o/-e one
InvalidReference ==
    \/ Truthy(args.backtest_loc) /\ HoldsNoMark(args.backtest_loc)
    \/ /\ Truthy(algo_mod_path)
       /\ \E loc \in {args.algo_history_loc, args.algo_report_loc,
                      args.algo_extract_loc} :
              Truthy(loc) /\ HoldsNoMark(loc)

C8_FireAndForget ==
    (args.run_on_engine /\ custom_calls # <<>>) =>
        /\ default_calls = <<>>
        /\ saved = <<>>
        /\ plots = <<>>

\* C9: exit status 0 is reached only when every algorithm execution of the
\* invocation returned SUCCESS.
C9_FailureIsFatal ==
    (Terminated /\ \E i \in AlgoCalls : trace[i].result # "SUCCESS") =>
        ExitStatus = 1

\* C10: the history is saved and plotted only after the default algorithm
\* run returned SUCCESS; when that run returns another status the
\* invocation stops with nothing saved and nothing plotted.
C10_PlotAfterSuccess ==
    /\ \A i \in PresenterCalls :
           \E j \in 1..(i - 1) :
               trace[j].fn = "run_algo" /\ trace[j].result = "SUCCESS"
    /\ \A j \in DOMAIN trace :
           (trace[j].fn = "run_algo" /\ trace[j].result # "SUCCESS") =>
               /\ \A i \in PresenterCalls : i < j
               /\ saved = <<>> /\ plots = <<>>
               /\ pc \in {"algo_status", "returned"}

\* a failed default run with a history file configured has returned
C10_Witness ==
    /\ pc = "returned"
    /\ Truthy(history_json_file)
    /\ trace # <<>>
    /\ trace[Len(trace)].fn = "run_algo"
    /\ trace[Len(trace)].result = "FAILED"

\* C11: when a valid -b reference has been resolved, every execution of the
\* default algorithm receives the load request built from it as its dataset
\* source.
C11_LoadRequestUsed ==
    (Resolved /\ args.backtest_loc \in {FileRef, S3Ref, RedisRef}) =>
        \A i \in DOMAIN default_calls :
            /\ "load_config" \in DOMAIN default_calls[i]
            /\ default_calls[i].load_config = load_config

\* C12: after a SUCCESS run, a result with no history entry for the ticker
\* does not end the presenter with a lookup error, and a series of zero rows
\* ends it with a normal return and no plot call, not with an index error.
C12_EmptyHistoryNotAnError ==
    [][ /\ pc = "get_history" => pc' # "KeyError"
        /\ (pc = "plot" /\ history_df.rows = <<>>) =>
               (pc' = "returned" /\ plots' = plots) ]_vars

\* C13: when writing the history to the -f file fails, the invocation does
\* not end on that failure: the failure is reported and the plotting
\* collaborator is still invoked.
C13_SaveFailureStillPlots ==
    ( /\ history_df.rows # <<>>
      /\ \E i \in DOMAIN trace :
             trace[i].fn = "to_json" /\ trace[i].result = "RAISED" ) =>
        /\ pc # "OSError"
        /\ errors # <<>>
        /\ Terminated => plots # <<>>

\* the history of the example: closes 0.0, 0.005, 0.01, 0.02, 5.0 in
\* thousandths
ExampleCloses == <<0, 5, 10, 20, 5000>>

\* the closes of the rows a plot call's row filter retains
Retained(p) == { p.df[i] : i \in { k \in DOMAIN p.df : p.df_filter[k] } }

\* C14 as stated: for the history with closes 0.0, 0.005, 0.01, 0.02, 5.0
\* the row filter handed to the plotting collaborator retains only the row
\* with close 5.0.
C14_OnlyFiveRetained ==
    \A i \in DOMAIN plots :
        plots[i].df = ExampleCloses => Retained(plots[i]) = {5000}

\* C14 amended: for that history the row filter retains exactly the rows
\* with close 0.02 and 5.0, the closes strictly above 0.01; a row with close
\* 0.01 or less is never retained.
C14_AboveThresholdRetained ==
    \A i \in DOMAIN plots :
        /\ plots[i].df = ExampleCloses => Retained(plots[i]) = {20, 5000}
        /\ Retained(plots[i]) \cap {0, 5, 10} = {}
        /\ Len(plots[i].df_filter) = Len(plots[i].df)

\* the example history has been plotted
C14_Witness ==
    /\ pc = "returned"
    /\ Len(plots) = 1
    /\ plots[1].df = ExampleCloses

\* C15: the plotting collaborator receives column 'minute' with format
\* '%d %H:%M:%S\n%b' when the configuration's timeseries is 'minute', and
\* column 'date' with format '%d\n%b' for every other timeseries.
C15_AxisFollowsTimeseries ==
    \A i \in DOMAIN plots :
        IF Get(config_dict, "timeseries", None) = Str("minute")
        THEN /\ plots[i].date_col = "minute"
             /\ plots[i].date_format = "%d %H:%M:%S\n%b"
        ELSE /\ plots[i].date_col = "date"
             /\ plots[i].date_format = "%d\n%b"

\* a run configured with timeseries 'daily' has been plotted
C15_Witness ==
    /\ Len(plots) = 1
    /\ Get(config_dict, "timeseries", None) = Str("daily")
    /\ plots[1].date_col = "date"

\* where in trace the collaborator fn was invoked
CallsOf(fn) == { i \in DOMAIN trace : trace[i].fn = fn }

\* C16: the custom-algorithm collaborator, the default algorithm and the
\* plotting collaborator are each invoked at most once, whatever statuses
\* are returned, and the custom invocation precedes the default one.
C16_NoRetry ==
    /\ Cardinality(CallsOf("run_custom_algo")) <= 1
    /\ Cardinality(CallsOf("run_algo")) <= 1
    /\ Cardinality(CallsOf("plot_trading_history")) <= 1
    /\ Len(custom_calls) = Cardinality(CallsOf("run_custom_algo"))
    /\ Len(default_calls) = Cardinality(CallsOf("run_algo"))
    /\ Len(plots) = Cardinality(CallsOf("plot_trading_history"))
    /\ \A i \in CallsOf("run_custom_algo") :
           \A j \in CallsOf("run_algo") : i < j

\* both algorithm collaborators returned a failure and the invocation is over
C16_Witness ==
    /\ Terminated
    /\ Len(trace) = 2
    /\ trace[1].fn = "run_custom_algo" /\ trace[1].result = "FAILED"
    /\ trace[2].fn = "run_algo" /\ trace[2].result = "ERR"

\* the default run returned SUCCESS
DefaultSucceeded ==
    \E i \in CallsOf("run_algo") : trace[i].result = "SUCCESS"

\* C17: the history is written (to_json is invoked) if and only if -f
\* names a destination and the default run returned SUCCESS with a tabular
\* series, it is written once, to that destination, and before the plotting
\* collaborator is invoked.
C17_SaveConditionalAndOrdered ==
    /\ CallsOf("to_json") # {} =>
           /\ Truthy(args.history_json_file)
           /\ DefaultSucceeded
           /\ history_df.kind = "frame"
           /\ Cardinality(CallsOf("to_json")) = 1
    /\ \A i \in DOMAIN saved :
           /\ saved[i].file = args.history_json_file
           /\ saved[i].rows = history_df.rows
    /\ Len(saved) <= Cardinality(CallsOf("to_json"))
    /\ ( /\ pc \in {"plot"} \cup {"returned"} \cup Exceptions
         /\ Truthy(args.history_json_file)
         /\ DefaultSucceeded
         /\ history_df.kind = "frame" ) => CallsOf("to_json") # {}
    /\ \A j \in CallsOf("plot_trading_history") :
           /\ \A i \in CallsOf("to_json") : i < j
           /\ Truthy(args.history_json_file) => Len(saved) = 1

\* the history has been written to the -f file and then plotted
C17_Witness ==
    /\ pc = "returned"
    /\ Len(saved) = 1
    /\ Len(plots) = 1
    /\ trace[Len(trace)].fn = "plot_trading_history"
    /\ trace[Len(trace) - 1].fn = "to_json"

\* C18: in a custom-module run, whichever of -b/-p/-o/-e are supplied, the
\* invocation goes from the custom-algorithm call to the interpretation of
\* the returned status and never fails on a channel name that was not
\* assigned.
C18_ChannelsOptional ==
    /\ pc # "UnboundLocalError"
    /\ (custom_calls # <<>> /\ pc # "custom_label") =>
           LabelNames \subseteq locals

\* C19: every custom-module invocation receives the resolved balance as its
\* balance and the resolved commission as its commission.
C19_BalanceAndCommissionPassed ==
    \A i \in DOMAIN custom_calls :
        /\ custom_calls[i].balance = custom_calls[i].config_dict["balance"]
        /\ custom_calls[i].commission =
               custom_calls[i].config_dict["commission"]

\* C20: when the configuration sets no timeseries, the custom-algorithm
\* invocation receives timeseries 'minute' and the presenter selects the
\* 'minute' axis and plots, without failing on the missing field.
C20_TimeseriesFallsThrough ==
    [][ /\ \A i \in DOMAIN custom_calls' :
               "timeseries" \notin DOMAIN custom_calls'[i].config_dict =>
                   custom_calls'[i].timeseries = Str("minute")
        /\ ( /\ pc = "plot"
             /\ history_df.rows # <<>>
             /\ "timeseries" \notin DOMAIN config_dict ) =>
               /\ pc' = "returned"
               /\ Len(plots') = 1
               /\ plots'[1].date_col = "minute" ]_vars

\* C21: the -d flag changes logging only: whether or not -d is given, the
\* step after the custom-module run depends on the returned status alone, a
\* status other than SUCCESS stops the invocation with exit status 1, and
\* the default algorithm is never invoked after it.
C21_DebugOnlyLogs ==
    [][ /\ pc = "custom_status" =>
               ((pc' = "exit") <=> (algo_res.status # "SUCCESS"))
        /\ (\E i \in CallsOf("run_custom_algo") :
                trace[i].result # "SUCCESS") => default_calls' = <<>> ]_vars

\* C22: the history that is saved and plotted is the dataset of the default
\* algorithm run of the same invocation, obtained after that run returned
\* SUCCESS; the history a custom-module run returned never reaches the
\* history file or the plotting collaborator.
C22_HistoryFromDefaultRun ==
    /\ history_df.kind # "unset" => DefaultSucceeded
    /\ \A i \in DOMAIN saved :
           /\ saved[i].rows = history_df.rows
           /\ saved[i].rows \notin CustomHistories
    /\ \A i \in DOMAIN plots :
           /\ plots[i].df = history_df.rows
           /\ plots[i].df \notin CustomHistories
    /\ \A i \in CallsOf("to_json") \cup CallsOf("plot_trading_history") :
           \E j \in CallsOf("run_algo") : j < i

\* a custom-module run succeeded in process, and a history was then saved
\* and plotted
C22_Witness ==
    /\ pc = "returned"
    /\ Len(custom_calls) = 1
    /\ ~custom_calls[1].run_on_engine
    /\ trace[1].fn = "run_custom_algo" /\ trace[1].result = "SUCCESS"
    /\ Len(saved) = 1
    /\ Len(plots) = 1

====
